---- MODULE Spec2Model ----
(***************************************************************************)
(* schwifty: the BBAN model (schwifty/bban.py), the national checksum      *)
(* algorithms (schwifty/checksum) and the IBAN mod-97 check digits.        *)
(*                                                                         *)
(* A string is a sequence of one-character strings.  An operation either   *)
(* returns a value or raises; both are recorded in `ret`.                  *)
(***************************************************************************)
EXTENDS Integers, Sequences, FiniteSets, TLC

VARIABLES
    call,           \* the operation last invoked and its arguments
    ret,            \* what it returned or raised
    self,           \* the BBAN object the operation returned or was invoked on
    iban,           \* the compact string of the IBAN object at hand, if any
    iban_registry,  \* registry.get("iban"): country code -> country spec
    bank_registry,  \* registry.get("bank_code"): (country, code) -> records
    algorithms      \* schwifty.checksum.algorithms: "<cc>:<name>" -> algorithm

vars == <<call, ret, self, iban, iban_registry, bank_registry, algorithms>>

(***************************************************************************)
(* Bounds of the model.                                                    *)
(***************************************************************************)
\* characters handed to one from_components call, over its three components
MaxTotal == 4

(***************************************************************************)
(* Characters and Python string primitives.                                *)
(***************************************************************************)
digits == <<"0", "1", "2", "3", "4", "5", "6", "7", "8", "9">>

ascii_uppercase ==
    <<"A", "B", "C", "D", "E", "F", "G", "H", "I", "J", "K", "L", "M",
      "N", "O", "P", "Q", "R", "S", "T", "U", "V", "W", "X", "Y", "Z">>

ascii_lowercase ==
    <<"a", "b", "c", "d", "e", "f", "g", "h", "i", "j", "k", "l", "m",
      "n", "o", "p", "q", "r", "s", "t", "u", "v", "w", "x", "y", "z">>

\* _alphabet = string.digits + string.ascii_uppercase
alphabet == digits \o ascii_uppercase

whitespace == {" "}

Range(s) == {s[i] : i \in 1..Len(s)}

\* s.index(c), 0-based; -1 stands for the ValueError of a missing character
Index(s, c) ==
    IF c \in Range(s) THEN (CHOOSE i \in 1..Len(s) : s[i] = c) - 1 ELSE -1

\* the uppercase letter of each lowercase letter
UpperOf ==
    [c \in Range(ascii_lowercase) |-> ascii_uppercase[Index(ascii_lowercase, c) + 1]]

\* str.upper() of one character
UpperChar(c) == IF c \in DOMAIN UpperOf THEN UpperOf[c] ELSE c

Upper(s) == [i \in 1..Len(s) |-> UpperChar(s[i])]

NotWhitespace(c) == c \notin whitespace

\* the value stripped of its whitespace
Strip(s) == SelectSeq(s, NotWhitespace)

\* common.clean: strip and uppercase
clean(s) == Upper(Strip(s))

Zeros(n) == [i \in 1..n |-> "0"]

\* mutant of zfill: the zeros are put behind the value
zfill_behind(s, width) ==
    IF Len(s) >= width THEN s ELSE s \o Zeros(width - Len(s))

\* str.zfill(width): zeros go after a leading sign character
zfill(s, width) ==
    IF Len(s) >= width THEN s
    ELSE IF s # <<>> /\ s[1] \in {"+", "-"}
         THEN <<s[1]>> \o Zeros(width - Len(s)) \o Tail(s)
         ELSE Zeros(width - Len(s)) \o s

\* a slice bound as Python normalises it for a string of length n
SliceIndex(i, n) ==
    IF i < 0 THEN (IF i + n < 0 THEN 0 ELSE i + n)
    ELSE IF i > n THEN n ELSE i

\* s[a:b]
Slice(s, a, b) ==
    LET lo == SliceIndex(a, Len(s))
        hi == SliceIndex(b, Len(s))
    IN  IF lo >= hi THEN <<>> ELSE SubSeq(s, lo + 1, hi)

\* s[:b] and s[a:]
SliceTo(s, b) == Slice(s, 0, b)
SliceFrom(s, a) == Slice(s, a, Len(s))

RECURSIVE Join(_)
Join(parts) ==
    IF parts = <<>> THEN <<>> ELSE Head(parts) \o Join(Tail(parts))

\* dict.get(key, default)
Get(d, key, default) == IF key \in DOMAIN d THEN d[key] ELSE default

(***************************************************************************)
(* schwifty.domain.Component                                               *)
(***************************************************************************)
ACCOUNT_ID == "account_id"
ACCOUNT_TYPE == "account_type"
ACCOUNT_CODE == "account_code"
ACCOUNT_HOLDER_ID == "account_holder_id"
BANK_CODE == "bank_code"
BRANCH_CODE == "branch_code"
NATIONAL_CHECKSUM_DIGITS == "national_checksum_digits"

Component ==
    {ACCOUNT_ID, ACCOUNT_TYPE, ACCOUNT_CODE, ACCOUNT_HOLDER_ID,
     BANK_CODE, BRANCH_CODE, NATIONAL_CHECKSUM_DIGITS}

EMPTY_RANGE == <<0, 0>>

(***************************************************************************)
(* Exceptions and results.                                                 *)
(***************************************************************************)
NoValue == <<>>

\* a result: what was raised, or the value returned (a string in `value`, a
\* boolean in `bool`, a bank record in `record`; a BBAN also has a country code)
Result(type, kind, value, bool) ==
    [type |-> type, kind |-> kind, value |-> value, bool |-> bool,
     country_code |-> NoValue, record |-> <<>>]

Raise(kind) == Result("raise", kind, NoValue, FALSE)

Return(type, value) == Result(type, "ok", value, FALSE)

ReturnBool(b) == Result("bool", "ok", NoValue, b)

Raised(r) == r.type = "raise"

NoObject == [live |-> FALSE, country_code |-> NoValue, value |-> NoValue]

\* BBAN.__new__ / BBAN.__init__
BBAN(country_code, value) ==
    [live |-> TRUE, country_code |-> country_code, value |-> value]

(***************************************************************************)
(* Registry Store.  The tables are data files of the package; the model    *)
(* holds a scaled registry: one country per layout shape, with component   *)
(* widths of one to three characters.  No branch code is one character     *)
(* wide, so that a bank code one character too long is not mistaken for a  *)
(* bank code with its branch code appended.                                *)
(*   DE  bank code, account code                                           *)
(*   GB  bank code, branch code, account code                              *)
(*   PT  bank, branch, account, two national checksum digits (ISO 7064)    *)
(*   NL  bank code, account code (validated by the NL rule)                *)
(*   IT  a national checksum character first, then bank, branch, account   *)
(*   IS  bank, account type, account code, account holder id               *)
(*   AO  a spec without a position table                                   *)
(*   TN  branch code and account code, no bank code                        *)
(***************************************************************************)
DE == <<"D", "E">>
GB == <<"G", "B">>
PT == <<"P", "T">>
NL == <<"N", "L">>
IT == <<"I", "T">>
IS == <<"I", "S">>
AO == <<"A", "O">>
TN == <<"T", "N">>

IbanRegistry ==
    (DE :> [bban_length |-> 4, bban_spec |-> <<"n", "n", "n", "n">>,
            positions |-> (BANK_CODE :> <<0, 2>> @@ ACCOUNT_CODE :> <<2, 4>>)])
 @@ (GB :> [bban_length |-> 4, bban_spec |-> <<"a", "n", "n", "n">>,
            positions |-> (BANK_CODE :> <<0, 1>> @@ BRANCH_CODE :> <<1, 3>>
                           @@ ACCOUNT_CODE :> <<3, 4>>)])
 @@ (PT :> [bban_length |-> 6, bban_spec |-> <<"n", "n", "n", "n", "n", "n">>,
            positions |-> (BANK_CODE :> <<0, 1>> @@ BRANCH_CODE :> <<1, 3>>
                           @@ ACCOUNT_CODE :> <<3, 4>>
                           @@ NATIONAL_CHECKSUM_DIGITS :> <<4, 6>>)])
 @@ (NL :> [bban_length |-> 4, bban_spec |-> <<"a", "n", "n", "n">>,
            positions |-> (BANK_CODE :> <<0, 1>> @@ ACCOUNT_CODE :> <<1, 4>>)])
 @@ (IT :> [bban_length |-> 5, bban_spec |-> <<"a", "n", "n", "n", "c">>,
            positions |-> (NATIONAL_CHECKSUM_DIGITS :> <<0, 1>>
                           @@ BANK_CODE :> <<1, 2>> @@ BRANCH_CODE :> <<2, 4>>
                           @@ ACCOUNT_CODE :> <<4, 5>>),
            bic_lookup_components |-> <<BANK_CODE, BRANCH_CODE>>])
 @@ (IS :> [bban_length |-> 4, bban_spec |-> <<"n", "n", "n", "n">>,
            positions |-> (BANK_CODE :> <<0, 1>> @@ ACCOUNT_TYPE :> <<1, 2>>
                           @@ ACCOUNT_CODE :> <<2, 3>>
                           @@ ACCOUNT_HOLDER_ID :> <<3, 4>>)])
 @@ (AO :> [bban_length |-> 4, bban_spec |-> <<"n", "n", "n", "n">>])
 @@ (TN :> [bban_length |-> 4, bban_spec |-> <<"n", "n", "n", "n">>,
            positions |-> (BRANCH_CODE :> <<0, 2>> @@ ACCOUNT_CODE :> <<2, 4>>)])

\* bank records by (country code, bank code); a record may name a checksum
\* algorithm of its own
BankRegistry ==
    (<<DE, <<"1", "1">>>> :>
        <<[name |-> "Bank A", bic |-> <<"A", "A">>, checksum_algo |-> "09"]>>)
 @@ (<<GB, <<"A">>>> :>
        <<[name |-> "Bank B", bic |-> <<"B", "B">>, primary |-> FALSE],
          [name |-> "Bank C", bic |-> <<"C", "C">>, primary |-> TRUE]>>)
 @@ (<<PT, <<"1">>>> :> <<[name |-> "Bank D", bic |-> <<"D", "D">>]>>)
 @@ (<<PT, <<"A">>>> :>
        <<[name |-> "Bank E", bic |-> <<"E", "E">>, checksum_algo |-> "00"]>>)
 @@ (<<NL, <<"A">>>> :>
        <<[name |-> "Bank F", bic |-> <<"F", "F">>, checksum_algo |-> "default"]>>)
 @@ (<<IT, <<"1", "0", "1">>>> :> <<[name |-> "Bank G", bic |-> <<"G", "G">>]>>)
 @@ (<<IT, <<"1">>>> :> <<>>)
 @@ (<<TN, <<"1", "1">>>> :> <<[name |-> "Bank H", bic |-> <<"H", "H">>]>>)

(***************************************************************************)
(* schwifty.checksum                                                       *)
(***************************************************************************)
\* an arbitrary-precision integer is kept as its decimal digits
IndexDigits(i) == IF i < 10 THEN <<i>> ELSE <<i \div 10, i % 10>>

RECURSIVE IndexString(_)
IndexString(value) ==
    IF value = <<>> THEN <<>>
    ELSE IndexDigits(Index(alphabet, Head(value))) \o IndexString(Tail(value))

\* mutant of numerify: the letters count from A = 11 (Z stays 35)
numerify_letters_late(value) ==
    IF value = <<>> \/ \E i \in 1..Len(value) : Index(alphabet, value[i]) < 0
    THEN [err |-> TRUE, digits |-> <<>>]
    ELSE [err |-> FALSE,
          digits |-> IndexString([i \in 1..Len(value) |->
                         IF value[i] \in Range(digits) THEN value[i]
                         ELSE IF value[i] = "Z" THEN "Z"
                         ELSE alphabet[Index(alphabet, value[i]) + 2]])]

\* numerify(value); int("") and a character outside _alphabet raise ValueError
numerify(value) ==
    IF value = <<>> \/ \E i \in 1..Len(value) : Index(alphabet, value[i]) < 0
    THEN [err |-> TRUE, digits |-> <<>>]
    ELSE [err |-> FALSE, digits |-> IndexString(value)]

\* n * 100
Times100(n) == n \o <<0, 0>>

\* n % mod
RECURSIVE IntMod(_, _)
IntMod(n, mod) ==
    IF n = <<>> THEN 0
    ELSE (IntMod(SubSeq(n, 1, Len(n) - 1), mod) * 10 + n[Len(n)]) % mod

RECURSIVE Decimal(_)
Decimal(v) ==
    IF v < 10 THEN <<digits[v + 1]>>
    ELSE Decimal(v \div 10) \o <<digits[(v % 10) + 1]>>

\* f"{v:0{n_digits}d}" for v >= 0
Format(v, n_digits) == Zeros(n_digits - Len(Decimal(v))) \o Decimal(v)

\* ISO7064_mod97_10.post_process
post_process == [r \in Nat |-> 98 - r]

\* iso7064(n, mod, post_process, n_digits=2)
iso7064(n, mod, f, n_digits) == Format(f[IntMod(n, mod)], n_digits)

\* sum(n * int(c) for n, c in zip(weights, value)), over the pairs from k on;
\* zip stops at the shorter of the two
RECURSIVE ZipSum(_, _, _)
ZipSum(weights, value, k) ==
    IF k > Len(weights) \/ k > Len(value) THEN 0
    ELSE weights[k] * Index(digits, value[k]) + ZipSum(weights, value, k + 1)

\* weighted(value, mod, weights); int(c) raises ValueError
weighted(value, mod, weights) ==
    IF \E k \in 1..Len(value) : k <= Len(weights) /\ Index(digits, value[k]) < 0
    THEN Raise("ValueError")
    ELSE Return("int", ZipSum(weights, value, 1) % mod)

ISO7064_mod97_10 == "ISO7064_mod97_10"
NLDefaultAlgorithm == "netherlands.DefaultAlgorithm"

\* Algorithm.accepts, and the NL override
accepts(algo) ==
    IF algo = NLDefaultAlgorithm THEN <<ACCOUNT_CODE>>
    ELSE <<BANK_CODE, BRANCH_CODE, ACCOUNT_CODE>>

\* mutant of iso_compute: pre_process without the factor 100
iso_compute_unscaled(components) ==
    LET n == numerify(Join(components))
    IN  IF n.err THEN Raise("ValueError")
        ELSE Return("str", iso7064(n.digits, 97, post_process, 2))

\* ISO7064_mod97_10.pre_process and compute
iso_compute(components) ==
    LET n == numerify(Join(components))
    IN  IF n.err THEN Raise("ValueError")
        ELSE Return("str", iso7064(Times100(n.digits), 97, post_process, 2))

\* netherlands.DefaultAlgorithm.compute
nl_compute(components) == Return("str", <<>>)

compute(algo, components) ==
    IF algo = NLDefaultAlgorithm THEN nl_compute(components)
    ELSE iso_compute(components)

\* mutant of default_validate: an empty expected checksum is let through
default_validate_empty_ok(algo, components, expected) ==
    LET c == compute(algo, components)
    IN  IF Raised(c) THEN c ELSE ReturnBool(expected = <<>> \/ c.value = expected)

\* Algorithm.validate
default_validate(algo, components, expected) ==
    LET c == compute(algo, components)
    IN  IF Raised(c) THEN c ELSE ReturnBool(c.value = expected)

RECURSIVE WeightedSum(_, _)
\* sum(int(digit) * (10 - i) for i, digit in enumerate(account_code)), from i
WeightedSum(account_code, i) ==
    IF account_code = <<>> THEN 0
    ELSE Index(digits, Head(account_code)) * (10 - i)
         + WeightedSum(Tail(account_code), i + 1)

\* mutant of nl_validate: the positions are counted from 1
nl_validate_from_one(components, expected) ==
    LET account_code == components[1]
    IN  IF Len(components) # 1
           \/ \E i \in 1..Len(account_code) : Index(digits, account_code[i]) < 0
        THEN Raise("ValueError")
        ELSE ReturnBool(WeightedSum(account_code, 1) % 11 = 0)

\* netherlands.DefaultAlgorithm.validate; int(digit) raises ValueError
nl_validate(components, expected) ==
    LET account_code == components[1]
    IN  IF Len(components) # 1
           \/ \E i \in 1..Len(account_code) : Index(digits, account_code[i]) < 0
        THEN Raise("ValueError")
        ELSE ReturnBool(WeightedSum(account_code, 0) % 11 = 0)

validate(algo, components, expected) ==
    IF algo = NLDefaultAlgorithm THEN nl_validate(components, expected)
    ELSE default_validate(algo, components, expected)

\* the f-string "<country_code>:<name>"
AlgorithmKey(country_code, name) == country_code \o <<":", name>>

\* the table the register(...) decorators build at import
Algorithms ==
    [k \in {AlgorithmKey(<<"B", "T">>, "default"),
            AlgorithmKey(<<"M", "E">>, "default"),
            AlgorithmKey(<<"M", "K">>, "default"),
            AlgorithmKey(PT, "default"),
            AlgorithmKey(<<"R", "S">>, "default"),
            AlgorithmKey(<<"S", "I">>, "default")} |-> ISO7064_mod97_10]
 @@ (AlgorithmKey(NL, "default") :> NLDefaultAlgorithm)

(***************************************************************************)
(* schwifty.bban                                                           *)
(***************************************************************************)
\* _get_bban_spec: the KeyError of an unknown country becomes InvalidCountryCode
KnownCountry(registry, country_code) == country_code \in DOMAIN registry

\* mutant of get_position_range: a component without a range gets the whole BBAN
get_position_range_whole(spec, component_type) ==
    Get(Get(spec, "positions", <<>>), component_type, <<0, spec.bban_length>>)

\* _get_position_range
get_position_range(spec, component_type) ==
    Get(Get(spec, "positions", <<>>), component_type, EMPTY_RANGE)

calc_value_length(spec, component_type) ==
    LET range == get_position_range(spec, component_type)
    IN  range[2] - range[1]

compute_national_checksum(algos, country_code, components) ==
    LET key == AlgorithmKey(country_code, "default")
    IN  IF key \notin DOMAIN algos THEN Return("str", <<>>)
        ELSE compute(algos[key],
                     [i \in 1..Len(accepts(algos[key])) |->
                         components[accepts(algos[key])[i]]])

\* mutant of WriteComponent: the value is inserted, the zeros under it stay
WriteComponent_inserting(bban, spec, key, value) ==
    LET position_range == get_position_range(spec, key)
        end == position_range[2]
        start == end - Len(value)
    IN  IF position_range = EMPTY_RANGE THEN bban
        ELSE SliceTo(bban, start) \o value \o SliceFrom(bban, start)

\* mutant of WriteComponent: the value ends one position before the range's end
WriteComponent_one_left(bban, spec, key, value) ==
    LET position_range == get_position_range(spec, key)
        end == position_range[2] - 1
        start == end - Len(value)
    IN  IF position_range = EMPTY_RANGE THEN bban
        ELSE SliceTo(bban, start) \o value \o SliceFrom(bban, end)

\* one pass of the assembly loop of from_components
WriteComponent(bban, spec, key, value) ==
    LET position_range == get_position_range(spec, key)
        end == position_range[2]
        start == end - Len(value)
    IN  IF position_range = EMPTY_RANGE THEN bban
        ELSE SliceTo(bban, start) \o value \o SliceFrom(bban, end)

\* the order in which the components dict is filled and iterated
ComponentOrder == <<BANK_CODE, BRANCH_CODE, ACCOUNT_CODE, NATIONAL_CHECKSUM_DIGITS>>

RECURSIVE Assemble(_, _, _, _)
Assemble(bban, spec, components, keys) ==
    IF keys = <<>> THEN bban
    ELSE Assemble(WriteComponent(bban, spec, Head(keys), components[Head(keys)]),
                  spec, components, Tail(keys))

\* mutant of SplitBankCode: the branch code is cut at the branch width
SplitBankCode_miscut(bank_code, branch_code, bank_code_length, branch_code_length) ==
    IF Len(bank_code) = bank_code_length + branch_code_length
    THEN <<SliceTo(bank_code, bank_code_length), SliceFrom(bank_code, branch_code_length)>>
    ELSE <<bank_code, branch_code>>

\* the bank code and the branch code after the split of lines 89-90
SplitBankCode(bank_code, branch_code, bank_code_length, branch_code_length) ==
    IF Len(bank_code) = bank_code_length + branch_code_length
    THEN <<SliceTo(bank_code, bank_code_length), SliceFrom(bank_code, bank_code_length)>>
    ELSE <<bank_code, branch_code>>

\* mutant of WidthError: the branch code is not checked
WidthError_no_branch(bank_code, branch_code, account_code, bank_code_length, branch_code_length, account_code_length) ==
    IF Len(bank_code) > bank_code_length THEN "InvalidBankCode"
    ELSE IF Len(account_code) > account_code_length THEN "InvalidAccountCode"
    ELSE "ok"

\* the width checks of lines 92-103: the first component that is too long
WidthError(bank_code, branch_code, account_code, bank_code_length, branch_code_length, account_code_length) ==
    IF Len(bank_code) > bank_code_length THEN "InvalidBankCode"
    ELSE IF Len(branch_code) > branch_code_length THEN "InvalidBranchCode"
    ELSE IF Len(account_code) > account_code_length THEN "InvalidAccountCode"
    ELSE "ok"

\* mutant of SpecError: a spec without a position table is let through
SpecError_no_positions_check(registry, country_code) ==
    IF ~KnownCountry(registry, country_code) THEN "InvalidCountryCode" ELSE "ok"

\* lines 76-78: the spec of the country, or why there is no generating for it
SpecError(registry, country_code) ==
    IF ~KnownCountry(registry, country_code) THEN "InvalidCountryCode"
    ELSE IF "positions" \notin DOMAIN registry[country_code] THEN "SchwiftyException"
    ELSE "ok"

\* BBAN.from_components(country_code, **values)
from_components(registry, algos, country_code, values) ==
    IF SpecError(registry, country_code) # "ok"
    THEN Raise(SpecError(registry, country_code))
    ELSE
    LET spec == registry[country_code]
        bank_code_length == calc_value_length(spec, BANK_CODE)
        branch_code_length == calc_value_length(spec, BRANCH_CODE)
        account_code_length == calc_value_length(spec, ACCOUNT_CODE)
        cc == clean(country_code)
        account_code == clean(Get(values, ACCOUNT_CODE, <<>>))
        split == SplitBankCode(clean(Get(values, BANK_CODE, <<>>)),
                               clean(Get(values, BRANCH_CODE, <<>>)),
                               bank_code_length, branch_code_length)
        bank_code == split[1]
        branch_code == split[2]
        error == WidthError(bank_code, branch_code, account_code, bank_code_length,
                            branch_code_length, account_code_length)
    IN
    IF error # "ok" THEN Raise(error)
    ELSE
    LET padded == (BANK_CODE :> zfill(bank_code, bank_code_length))
               @@ (BRANCH_CODE :> zfill(branch_code, branch_code_length))
               @@ (ACCOUNT_CODE :> zfill(account_code, account_code_length))
        checksum == compute_national_checksum(algos, cc, padded)
    IN
    IF Raised(checksum) THEN checksum
    ELSE [Return("BBAN",
                 Assemble(Zeros(spec.bban_length), spec,
                          padded @@ (NATIONAL_CHECKSUM_DIGITS :> checksum.value),
                          ComponentOrder))
          EXCEPT !.country_code = cc]

\* common.Base._get_slice
get_slice(value, start, end) == Slice(value, start, end)

\* mutant of get_component: the end of the range is read as inclusive
get_component_inclusive(registry, obj, component_type) ==
    IF ~KnownCountry(registry, obj.country_code) THEN Raise("InvalidCountryCode")
    ELSE LET range == get_position_range(registry[obj.country_code], component_type)
         IN  Return("str", get_slice(obj.value, range[1], range[2] + 1))

\* BBAN._get_component, through the spec property
get_component(registry, obj, component_type) ==
    IF ~KnownCountry(registry, obj.country_code) THEN Raise("InvalidCountryCode")
    ELSE LET range == get_position_range(registry[obj.country_code], component_type)
         IN  Return("str", get_slice(obj.value, range[1], range[2]))

\* mutant of bank: the bank code is the key even when it is empty
bank_by_bank_code_only(registry, banks, obj) ==
    LET bank_code == get_component(registry, obj, BANK_CODE)
        key == <<obj.country_code, bank_code.value>>
    IN  IF Raised(bank_code) THEN bank_code
        ELSE IF key \notin DOMAIN banks \/ banks[key] = <<>>
        THEN [Return("None", <<>>) EXCEPT !.record = <<>>]
        ELSE [Return("dict", <<>>) EXCEPT !.record = banks[key][1]]

\* BBAN.bank: the first record of the entry, None when there is none
bank(registry, banks, obj) ==
    LET bank_code == get_component(registry, obj, BANK_CODE)
        branch_code == get_component(registry, obj, BRANCH_CODE)
        key == <<obj.country_code,
                 IF bank_code.value # <<>> THEN bank_code.value ELSE branch_code.value>>
    IN  IF Raised(bank_code) THEN bank_code
        ELSE IF key \notin DOMAIN banks \/ banks[key] = <<>>
        THEN [Return("None", <<>>) EXCEPT !.record = <<>>]
        ELSE [Return("dict", <<>>) EXCEPT !.record = banks[key][1]]

\* mutant of validate_national_checksum: the bank's override is not looked at
validate_national_checksum_default_only(registry, banks, algos, obj) ==
    LET b == bank(registry, banks, obj) IN
    IF Raised(b) THEN b
    ELSE
    LET key == AlgorithmKey(obj.country_code, "default") IN
    IF key \notin DOMAIN algos THEN ReturnBool(TRUE)
    ELSE
    LET algo == algos[key]
        components == [i \in 1..Len(accepts(algo)) |->
                          get_component(registry, obj, accepts(algo)[i]).value]
        valid == validate(algo, components,
                          get_component(registry, obj, NATIONAL_CHECKSUM_DIGITS).value)
    IN  IF Raised(valid) THEN valid
        ELSE IF ~valid.bool THEN Raise("InvalidBBANChecksum")
        ELSE ReturnBool(FALSE)

\* BBAN.validate_national_checksum
validate_national_checksum(registry, banks, algos, obj) ==
    LET b == bank(registry, banks, obj) IN
    IF Raised(b) THEN b
    ELSE
    LET algo_name == IF b.type = "dict" THEN Get(b.record, "checksum_algo", "default")
                     ELSE "default"
        key == AlgorithmKey(obj.country_code, algo_name)
    IN
    IF key \notin DOMAIN algos THEN ReturnBool(TRUE)
    ELSE
    LET algo == algos[key]
        components == [i \in 1..Len(accepts(algo)) |->
                          get_component(registry, obj, accepts(algo)[i]).value]
        valid == validate(algo, components,
                          get_component(registry, obj, NATIONAL_CHECKSUM_DIGITS).value)
    IN  IF Raised(valid) THEN valid
        ELSE IF ~valid.bool THEN Raise("InvalidBBANChecksum")
        ELSE ReturnBool(FALSE)

\* BIC.from_bank_code: InvalidBankCode without records, else the BIC of the
\* primary record, of the first record when none is primary
from_bank_code(banks, country_code, bank_code) ==
    LET key == <<country_code, bank_code>> IN
    IF key \notin DOMAIN banks \/ banks[key] = <<>> THEN Raise("InvalidBankCode")
    ELSE LET records == banks[key]
             primary == {i \in 1..Len(records) : Get(records[i], "primary", FALSE)}
             first == IF primary = {} THEN 1
                      ELSE CHOOSE i \in primary : \A j \in primary : i <= j
         IN  Return("BIC", records[first].bic)

\* mutant of bic: the listed components are joined in reverse order
bic_reversed(registry, banks, obj) ==
    IF ~KnownCountry(registry, obj.country_code) THEN Raise("InvalidCountryCode")
    ELSE
    LET lookup_by == Get(registry[obj.country_code], "bic_lookup_components",
                         <<BANK_CODE>>)
        key == Join([i \in 1..Len(lookup_by) |->
                        get_component(registry, obj,
                                      lookup_by[Len(lookup_by) + 1 - i]).value])
        found == from_bank_code(banks, obj.country_code, key)
    IN  IF Raised(found) THEN Return("None", <<>>) ELSE found

\* mutant of bic: the spec lookup is inside the try block too
bic_all_in_try(registry, banks, obj) ==
    IF ~KnownCountry(registry, obj.country_code) THEN Return("None", <<>>)
    ELSE
    LET lookup_by == Get(registry[obj.country_code], "bic_lookup_components",
                         <<BANK_CODE>>)
        key == Join([i \in 1..Len(lookup_by) |->
                        get_component(registry, obj, lookup_by[i]).value])
        found == from_bank_code(banks, obj.country_code, key)
    IN  IF Raised(found) THEN Return("None", <<>>) ELSE found

\* BBAN.bic: None when the lookup fails with a SchwiftyException
bic(registry, banks, obj) ==
    IF ~KnownCountry(registry, obj.country_code) THEN Raise("InvalidCountryCode")
    ELSE
    LET lookup_by == Get(registry[obj.country_code], "bic_lookup_components",
                         <<BANK_CODE>>)
        key == Join([i \in 1..Len(lookup_by) |->
                        get_component(registry, obj, lookup_by[i]).value])
        found == from_bank_code(banks, obj.country_code, key)
    IN  IF Raised(found) THEN Return("None", <<>>) ELSE found

\* BBAN.spec
spec_property(registry, obj) ==
    IF ~KnownCountry(registry, obj.country_code) THEN Raise("InvalidCountryCode")
    ELSE [Return("dict", <<>>) EXCEPT !.record = registry[obj.country_code]]

(***************************************************************************)
(* schwifty.iban: validate and generate of the IBAN model.  The compact    *)
(* string is country code, two check digits and the BBAN.                  *)
(***************************************************************************)
\* the characters a position of a bban_spec admits in the compact form
CharacterClass(class) ==
    IF class = "n" THEN Range(digits)
    ELSE IF class = "a" THEN Range(ascii_uppercase)
    ELSE IF class = "c" THEN Range(digits) \cup Range(ascii_uppercase)
    ELSE {" "}

\* every position of the BBAN is of the class the country spec declares
StructureValid(registry, country_code, bban) ==
    /\ Len(bban) = Len(registry[country_code].bban_spec)
    /\ \A i \in 1..Len(bban) :
          bban[i] \in CharacterClass(registry[country_code].bban_spec[i])

\* IBAN.country_code, IBAN.checksum_digits and the value of IBAN.bban
iban_country_code(value) == SliceTo(value, 2)

iban_checksum_digits(value) == Slice(value, 2, 4)

iban_bban(value) == SliceFrom(value, 4)

\* the check digits of generation: 98 less the mod-97 remainder of the
\* numerified BBAN + country code + "00", in two digits
calc_checksum_digits(country_code, bban) ==
    LET n == numerify(bban \o country_code \o <<"0", "0">>)
    IN  IF n.err THEN Raise("ValueError")
        ELSE Return("str", iso7064(n.digits, 97, post_process, 2))

\* IBAN.validate(validate_bban): length, structure, check digits, and on
\* request the national checksum, the first failure raised
iban_validate(registry, banks, algos, value, validate_bban) ==
    LET country_code == iban_country_code(value)
        checksum_digits == iban_checksum_digits(value)
        bban == iban_bban(value)
    IN
    IF ~KnownCountry(registry, country_code) THEN Raise("InvalidCountryCode")
    ELSE IF Len(value) # registry[country_code].bban_length + 4
    THEN Raise("InvalidLength")
    ELSE IF \/ \E i \in 1..2 : checksum_digits[i] \notin Range(digits)
            \/ ~StructureValid(registry, country_code, bban)
    THEN Raise("InvalidStructure")
    ELSE
    LET n == numerify(bban \o country_code \o checksum_digits)
        expected == calc_checksum_digits(country_code, bban)
    IN
    IF n.err \/ Raised(expected) THEN Raise("ValueError")
    ELSE IF IntMod(n.digits, 97) # 1 \/ expected.value # checksum_digits
    THEN Raise("InvalidChecksumDigits")
    ELSE IF ~validate_bban THEN ReturnBool(TRUE)
    ELSE LET national == validate_national_checksum(registry, banks, algos,
                                                    BBAN(country_code, bban))
         IN  IF Raised(national) THEN national ELSE ReturnBool(TRUE)

\* IBAN.generate past the BBAN it builds: the check digits of the BBAN, and
\* the validation of the default construction path; a failure of
\* from_components is passed on
iban_from_bban(registry, banks, algos, bban) ==
    IF Raised(bban) THEN bban
    ELSE
    LET checksum_digits == calc_checksum_digits(bban.country_code, bban.value) IN
    IF Raised(checksum_digits) THEN checksum_digits
    ELSE
    LET value == bban.country_code \o checksum_digits.value \o bban.value
        valid == iban_validate(registry, banks, algos, value, FALSE)
    IN  IF Raised(valid) THEN valid
        ELSE [Return("IBAN", value) EXCEPT !.country_code = bban.country_code]

(***************************************************************************)
(* The inputs of the model.                                                *)
(***************************************************************************)
\* a digit, a lowercase letter, a blank and a sign
InputChars == {"1", "a", " ", "-"}

Strings(chars, n) == UNION {[1..m -> chars] : m \in 0..n}

\* the registered countries, an unnormalised spelling and an unknown code
CountryInputs == DOMAIN IbanRegistry \cup {<<"d", "e">>, <<"X", "X">>}

ComponentArgs == {BANK_CODE, BRANCH_CODE, ACCOUNT_CODE}

\* characters of the values a BBAN object is constructed with
ValueChars == {"0", "1", "A"}

\* a BBAN of a registered country has the length of its spec; one of another
\* country code has the length of a DE one
ValueLengths(country_code) ==
    IF country_code \in DOMAIN IbanRegistry
    THEN {IbanRegistry[country_code].bban_length}
    ELSE {IbanRegistry[DE].bban_length}

\* characters of the components an IBAN is generated from
GenerateChars == {"1", "7", "a"}

\* the two-digit strings "00" .. "99"
CheckDigitInputs == {<<digits[i], digits[j]>> : i, j \in 1..10}

\* characters of the components handed to a checksum algorithm: digits, a
\* letter of the alphabet and a character outside it
ChecksumChars == {"0", "1", "9", "Z", "a"}

\* a list of one component, and lists of three whose first two components
\* have at most one character each (some may be empty)
ComponentCuts == {c \in (0..1) \X (0..2) : c[1] <= c[2] /\ c[2] <= c[1] + 1}

ComponentLists ==
    LET texts == Strings(ChecksumChars, MaxTotal)
    IN  {<<t>> : t \in texts}
        \cup {<<SubSeq(p[1], 1, p[2][1]), SubSeq(p[1], p[2][1] + 1, p[2][2]),
                SubSeq(p[1], p[2][2] + 1, Len(p[1]))>> :
                  p \in {q \in texts \X ComponentCuts : q[2][2] <= Len(q[1])}}

AlgorithmInputs == {ISO7064_mod97_10, NLDefaultAlgorithm}

\* checksums to validate against: what compute gives, the empty string and
\* a two-digit string
ExpectedInputs(algo, components) ==
    {<<>>, <<"9", "8">>}
    \cup (IF Raised(compute(algo, components)) THEN {}
          ELSE {compute(algo, components).value})

WeightInputs == {<<>>, <<2, 1>>, <<3, 2, 1>>, <<10, 9, 8, 7>>}

ModInputs == {10, 11}

(***************************************************************************)
(* The state machine: one action per entry point.  No entry point keeps    *)
(* state between calls, so a behaviour is one construction of a BBAN       *)
(* followed by any number of calls on the object it gave.                  *)
(***************************************************************************)
NoIban == <<>>

NoCall == [op |-> "none", country_code |-> <<>>, values |-> <<>>]

Init ==
    /\ call = NoCall
    /\ ret = Return("None", <<>>)
    /\ self = NoObject
    /\ iban = NoIban
    /\ iban_registry = IbanRegistry
    /\ bank_registry = BankRegistry
    /\ algorithms = Algorithms

Tables == <<iban_registry, bank_registry, algorithms>>

\* BBAN.from_components(country_code, bank_code=..., branch_code=..., account_code=...)
FromComponents ==
    /\ call = NoCall
    /\ \E country_code \in CountryInputs, text \in Strings(InputChars, MaxTotal) :
       \E i \in 0..Len(text) : \E j \in i..Len(text) :
           LET given == (BANK_CODE :> SubSeq(text, 1, i))
                     @@ (BRANCH_CODE :> SubSeq(text, i + 1, j))
                     @@ (ACCOUNT_CODE :> SubSeq(text, j + 1, Len(text)))
           IN  \E omitted \in {{}, {k \in ComponentArgs : given[k] = <<>>}} :
               LET values == [k \in ComponentArgs \ omitted |-> given[k]] IN
               \E result \in {from_components(iban_registry, algorithms,
                                              country_code, values)} :
                   /\ call' = [op |-> "from_components", country_code |-> country_code,
                               values |-> values]
                   /\ ret' = result
                   /\ self' = IF Raised(result) THEN NoObject
                              ELSE BBAN(result.country_code, result.value)
                   /\ UNCHANGED <<iban, Tables>>

\* BBAN(country_code, value)
NewBBAN ==
    /\ call = NoCall
    /\ \E country_code \in CountryInputs :
       \E n \in ValueLengths(country_code) : \E value \in [1..n -> ValueChars] :
           /\ call' = [op |-> "BBAN", country_code |-> country_code, values |-> <<>>]
           /\ ret' = [Return("BBAN", value) EXCEPT !.country_code = country_code]
           /\ self' = BBAN(country_code, value)
           /\ UNCHANGED <<iban, Tables>>

\* a method or property of the object at hand
Invoke(op, result) ==
    /\ self.live
    /\ call' = [op |-> op, country_code |-> self.country_code, values |-> <<>>]
    /\ ret' = result
    /\ UNCHANGED <<self, iban, Tables>>

BankCode == Invoke("bank_code", get_component(iban_registry, self, BANK_CODE))

BranchCode == Invoke("branch_code", get_component(iban_registry, self, BRANCH_CODE))

AccountCode == Invoke("account_code", get_component(iban_registry, self, ACCOUNT_CODE))

AccountId == Invoke("account_id", get_component(iban_registry, self, ACCOUNT_ID))

AccountType == Invoke("account_type", get_component(iban_registry, self, ACCOUNT_TYPE))

AccountHolderId ==
    Invoke("account_holder_id", get_component(iban_registry, self, ACCOUNT_HOLDER_ID))

NationalChecksumDigits ==
    Invoke("national_checksum_digits",
           get_component(iban_registry, self, NATIONAL_CHECKSUM_DIGITS))

SpecProperty == Invoke("spec", spec_property(iban_registry, self))

Bank == Invoke("bank", bank(iban_registry, bank_registry, self))

Bic == Invoke("bic", bic(iban_registry, bank_registry, self))

ValidateNationalChecksum ==
    Invoke("validate_national_checksum",
           validate_national_checksum(iban_registry, bank_registry, algorithms, self))

Next ==
    \/ FromComponents
    \/ NewBBAN
    \/ BankCode
    \/ BranchCode
    \/ AccountCode
    \/ AccountId
    \/ AccountType
    \/ AccountHolderId
    \/ NationalChecksumDigits
    \/ SpecProperty
    \/ Bank
    \/ Bic
    \/ ValidateNationalChecksum

Spec == Init /\ [][Next]_vars

(***************************************************************************)
(* The IBAN entry points: an IBAN is generated from components, may be     *)
(* constructed again with other check digits in the mode that allows       *)
(* invalid values, and validated.                                          *)
(***************************************************************************)
\* IBAN.generate(country_code, bank_code, account_code, branch_code)
Generate ==
    /\ call = NoCall
    /\ \E country_code \in CountryInputs, text \in Strings(GenerateChars, MaxTotal) :
       \E i \in 0..Len(text) : \E j \in i..Len(text) :
           LET values == (BANK_CODE :> SubSeq(text, 1, i))
                      @@ (BRANCH_CODE :> SubSeq(text, i + 1, j))
                      @@ (ACCOUNT_CODE :> SubSeq(text, j + 1, Len(text)))
           IN  \E bban \in {from_components(iban_registry, algorithms,
                                            country_code, values)} :
               \E result \in {iban_from_bban(iban_registry, bank_registry,
                                             algorithms, bban)} :
                   /\ call' = [op |-> "generate", country_code |-> country_code,
                               values |-> values]
                   /\ ret' = result
                   /\ iban' = IF Raised(result) THEN NoIban ELSE result.value
                   /\ self' = IF Raised(result) THEN NoObject
                              ELSE BBAN(bban.country_code, bban.value)
                   /\ UNCHANGED Tables

\* IBAN(value, allow_invalid=True), value a generated IBAN with check digits
\* of the caller's choice
NewIBAN ==
    /\ call.op = "generate"
    /\ iban # NoIban
    /\ \E checksum_digits \in CheckDigitInputs :
       LET value == iban_country_code(iban) \o checksum_digits \o iban_bban(iban)
       IN  /\ call' = [op |-> "IBAN", country_code |-> iban_country_code(iban),
                       values |-> <<>>]
           /\ ret' = [Return("IBAN", value) EXCEPT !.country_code = iban_country_code(iban)]
           /\ iban' = value
           /\ UNCHANGED <<self, Tables>>

\* iban.validate(validate_bban)
ValidateIBAN(validate_bban) ==
    /\ call.op \in {"generate", "IBAN"}
    /\ iban # NoIban
    /\ call' = [op |-> IF validate_bban THEN "validate_bban" ELSE "validate",
                country_code |-> iban_country_code(iban), values |-> <<>>]
    /\ ret' = iban_validate(iban_registry, bank_registry, algorithms, iban,
                            validate_bban)
    /\ UNCHANGED <<self, iban, Tables>>

Validate == ValidateIBAN(FALSE)

ValidateBban == call.op = "generate" /\ ValidateIBAN(TRUE)

NextIBAN ==
    \/ Generate
    \/ NewIBAN
    \/ Validate
    \/ ValidateBban

SpecIBAN == Init /\ [][NextIBAN]_vars

(***************************************************************************)
(* The checksum algorithms called on their own, as their tests call them.  *)
(***************************************************************************)
AlgorithmCall(op, algo, components, expected) ==
    [op |-> op, country_code |-> <<>>, values |-> <<>>, algo |-> algo,
     components |-> components, expected |-> expected]

\* algo.compute(components)
Compute ==
    /\ call = NoCall
    /\ \E algo \in AlgorithmInputs, components \in ComponentLists :
           /\ call' = AlgorithmCall("compute", algo, components, <<>>)
           /\ ret' = compute(algo, components)
    /\ UNCHANGED <<self, iban, Tables>>

\* algo.validate(components, expected)
AlgorithmValidate ==
    /\ call = NoCall
    /\ \E algo \in AlgorithmInputs, components \in ComponentLists :
       \E expected \in ExpectedInputs(algo, components) :
           /\ call' = AlgorithmCall("validate", algo, components, expected)
           /\ ret' = validate(algo, components, expected)
    /\ UNCHANGED <<self, iban, Tables>>

\* weighted(value, mod, weights)
Weighted ==
    /\ call = NoCall
    /\ \E value \in Strings(ChecksumChars, MaxTotal), mod \in ModInputs,
          weights \in WeightInputs :
           /\ call' = [op |-> "weighted", country_code |-> <<>>, values |-> <<>>,
                       value |-> value, mod |-> mod, weights |-> weights]
           /\ ret' = weighted(value, mod, weights)
    /\ UNCHANGED <<self, iban, Tables>>

NextChecksum ==
    \/ Compute
    \/ AlgorithmValidate
    \/ Weighted

SpecChecksum == Init /\ [][NextChecksum]_vars

(***************************************************************************)
(* What the claims speak of, read off the call at hand.                    *)
(***************************************************************************)
\* from_components was called for a registered country with a position table
Generating ==
    /\ call.op = "from_components"
    /\ call.country_code \in DOMAIN iban_registry
    /\ "positions" \in DOMAIN iban_registry[call.country_code]

CallSpec == iban_registry[call.country_code]

\* the declared range and width of a component
Declared(component) ==
    IF component \in DOMAIN CallSpec.positions
    THEN CallSpec.positions[component] ELSE <<0, 0>>

Width(component) == Declared(component)[2] - Declared(component)[1]

\* a supplied value, stripped and uppercased
Arg(component) ==
    clean(IF component \in DOMAIN call.values THEN call.values[component] ELSE <<>>)

\* a bank code that carries the branch code behind it
Unsplit == Len(Arg(BANK_CODE)) = Width(BANK_CODE) + Width(BRANCH_CODE)

\* the three values after the bank-code split
Effective(component) ==
    IF ~Unsplit \/ component = ACCOUNT_CODE THEN Arg(component)
    ELSE IF component = BANK_CODE
    THEN SubSeq(Arg(BANK_CODE), 1, Width(BANK_CODE))
    ELSE SubSeq(Arg(BANK_CODE), Width(BANK_CODE) + 1, Len(Arg(BANK_CODE)))

WidthErrorOf(component) ==
    IF component = BANK_CODE THEN "InvalidBankCode"
    ELSE IF component = BRANCH_CODE THEN "InvalidBranchCode"
    ELSE "InvalidAccountCode"

WidthErrors == {WidthErrorOf(c) : c \in ComponentArgs}

TooLong(component) == Len(Effective(component)) > Width(component)

Returned == ret.type = "BBAN" /\ self.live

\* s with zeros in front, up to the width
LeftPadded(s, width) ==
    IF Len(s) >= width THEN s ELSE [i \in 1..(width - Len(s)) |-> "0"] \o s

\* the same, but a leading sign stays in front of the zeros
SignPadded(s, width) ==
    IF Len(s) > 0 /\ Len(s) < width /\ s[1] \in {"+", "-"}
    THEN <<s[1]>> \o LeftPadded(SubSeq(s, 2, Len(s)), width - 1)
    ELSE LeftPadded(s, width)

\* what the accessor of a component reads from the object at hand
Read(component) == get_component(iban_registry, self, component).value

(***************************************************************************)
(* C1: a BBAN that from_components returns for a country with a position   *)
(* table is exactly as long as the spec's bban_length.                     *)
(***************************************************************************)
C1_Length ==
    (Generating /\ Returned) => Len(ret.value) = CallSpec.bban_length

\* PT: all of bank, branch and account supplied, and a checksum written
C1_Witness ==
    /\ Generating /\ Returned
    /\ call.country_code = PT
    /\ \A c \in ComponentArgs : Len(Arg(c)) = Width(c)

(***************************************************************************)
(* C2, as claimed: each component that is too long (after the split) makes *)
(* from_components fail with the error of that very component.             *)
(***************************************************************************)
C2_Original ==
    Generating =>
        \A c \in ComponentArgs : TooLong(c) => ret.kind = WidthErrorOf(c)

(***************************************************************************)
(* C2, amended: the components are checked in the order bank, branch,      *)
(* account and the first one that is too long names the error; whenever    *)
(* one is too long, the call raises and returns no BBAN.                   *)
(***************************************************************************)
C2_FirstTooLong ==
    Generating =>
        \E long \in {{c \in ComponentArgs : TooLong(c)}} :
            /\ BANK_CODE \in long => ret.kind = "InvalidBankCode"
            /\ (BANK_CODE \notin long /\ BRANCH_CODE \in long)
                   => ret.kind = "InvalidBranchCode"
            /\ long = {ACCOUNT_CODE} => ret.kind = "InvalidAccountCode"
            /\ long # {} => (Raised(ret) /\ ~self.live)

\* a branch code and an account code both too long: the branch code is named
C2_Witness ==
    /\ Generating
    /\ ret.kind = "InvalidBranchCode"
    /\ TooLong(ACCOUNT_CODE)

(***************************************************************************)
(* C3, as claimed: with the other two values within their widths, a value  *)
(* of exactly the declared width is accepted, and a value one character    *)
(* longer raises the width error of its component.                         *)
(***************************************************************************)
C3_Original ==
    Generating =>
        \A c \in ComponentArgs :
            (\A o \in ComponentArgs \ {c} : Len(Arg(o)) <= Width(o)) =>
                /\ Len(Arg(c)) = Width(c) => ret.kind \notin WidthErrors
                /\ Len(Arg(c)) = Width(c) + 1 => ret.kind = WidthErrorOf(c)

(***************************************************************************)
(* C4, as claimed: the accessors of a returned BBAN give the normalized    *)
(* input values, left-padded with "0" to their widths.                     *)
(***************************************************************************)
C4_Original ==
    (Generating /\ Returned) =>
        \A c \in ComponentArgs : Read(c) = LeftPadded(Arg(c), Width(c))

(***************************************************************************)
(* C4, amended: the accessors give the values after the bank-code split    *)
(* (a bank code of bank width + branch width supplies the bank code and    *)
(* the branch code), padded with "0" to their widths, the zeros following  *)
(* a leading "+" or "-".                                                   *)
(***************************************************************************)
C4_RoundTrip ==
    (Generating /\ Returned) =>
        \A c \in ComponentArgs : Read(c) = SignPadded(Effective(c), Width(c))

\* GB: a bank code with the branch code behind it, and an account code
C4_Witness ==
    /\ Generating /\ Returned
    /\ call.country_code = GB
    /\ Unsplit
    /\ Arg(ACCOUNT_CODE) # <<>>

(***************************************************************************)
(* C5: a bank code of bank width + branch width, passed without a branch   *)
(* code, gives what the same call gives with the bank code and the branch  *)
(* code passed apart.                                                      *)
(***************************************************************************)
C5_Split ==
    (Generating /\ Arg(BRANCH_CODE) = <<>> /\ Unsplit) =>
        ret = from_components(iban_registry, algorithms, call.country_code,
                  (BANK_CODE :> Effective(BANK_CODE))
               @@ (BRANCH_CODE :> Effective(BRANCH_CODE))
               @@ (ACCOUNT_CODE :> Arg(ACCOUNT_CODE)))

C5_Witness ==
    /\ Generating /\ Returned
    /\ Unsplit
    /\ Width(BRANCH_CODE) > 0
    /\ BRANCH_CODE \notin DOMAIN call.values
    /\ Read(BRANCH_CODE) = Effective(BRANCH_CODE)
    /\ Read(BRANCH_CODE) \notin {<<"0", "0">>, <<>>}

(***************************************************************************)
(* C6, as stated: generating again from the bank code, branch code and     *)
(* account code read from a valid BBAN (of a country with a position       *)
(* table, of the declared length and character classes, its national       *)
(* checksum accepted) returns that same BBAN string.                       *)
(***************************************************************************)
\* from_components applied to the three accessors of the object at hand
Regenerated ==
    from_components(iban_registry, algorithms, self.country_code,
                    (BANK_CODE :> Read(BANK_CODE))
                    @@ (BRANCH_CODE :> Read(BRANCH_CODE))
                    @@ (ACCOUNT_CODE :> Read(ACCOUNT_CODE)))

ValidBBAN ==
    /\ self.live
    /\ self.country_code \in DOMAIN iban_registry
    /\ "positions" \in DOMAIN iban_registry[self.country_code]
    /\ StructureValid(iban_registry, self.country_code, self.value)
    /\ ~Raised(validate_national_checksum(iban_registry, bank_registry,
                                          algorithms, self))

SameAgain ==
    \E again \in {Regenerated} :
        /\ again.type = "BBAN"
        /\ again.value = self.value
        /\ again.country_code = self.country_code

C6_Original == ValidBBAN => SameAgain

(***************************************************************************)
(* C6, amended: from_components applied to the bank_code, branch_code and  *)
(* account_code accessors of a BBAN that from_components returned returns  *)
(* that same BBAN string, for the same country code.                       *)
(***************************************************************************)
C6_Regenerate == (Generating /\ Returned) => SameAgain

\* GB: a bank code that carried its branch code, read back as two components
C6_Witness ==
    /\ Generating /\ Returned
    /\ call.country_code = GB
    /\ Unsplit
    /\ Read(BRANCH_CODE) # Zeros(Width(BRANCH_CODE))
    /\ SameAgain

RECURSIVE Remainder97(_, _)
Remainder97(s, r) ==
    IF s = <<>> THEN r
    ELSE LET v == IF Head(s) \in Range(digits) THEN Index(digits, Head(s))
                  ELSE 10 + Index(ascii_uppercase, Head(s))
         IN  Remainder97(Tail(s), (r * (IF v < 10 THEN 10 ELSE 100) + v) % 97)

CheckValue(value) ==
    98 - Remainder97(iban_bban(value) \o iban_country_code(value) \o <<"0", "0">>, 0)

TrueCheckDigits(value) ==
    <<digits[(CheckValue(value) \div 10) + 1], digits[(CheckValue(value) % 10) + 1]>>

C8_ChecksumLaw ==
    /\ (call.op = "generate" /\ ret.type = "IBAN") =>
           iban_checksum_digits(iban) = TrueCheckDigits(iban)
    /\ call.op = "validate" =>
           IF iban_checksum_digits(iban) = TrueCheckDigits(iban)
           THEN ~Raised(ret)
           ELSE Raised(ret) /\ ret.kind = "InvalidChecksumDigits"

\* check digits 99 in place of 02: the remainder of the whole is 1 all the same
C8_Witness ==
    /\ call.op = "validate"
    /\ TrueCheckDigits(iban) = <<"0", "2">>
    /\ iban_checksum_digits(iban) = <<"9", "9">>
    /\ Remainder97(iban_bban(iban) \o iban_country_code(iban)
                   \o iban_checksum_digits(iban), 0) = 1
    /\ ret.kind = "InvalidChecksumDigits"

(***************************************************************************)
(* C9: for a registered country without a position table from_components   *)
(* fails with the plain SchwiftyException of unsupported generation, also  *)
(* when a component would be too long.                                     *)
(***************************************************************************)
C9_Unsupported ==
    (/\ call.op = "from_components"
     /\ call.country_code \in DOMAIN iban_registry
     /\ "positions" \notin DOMAIN iban_registry[call.country_code])
        => (ret.kind = "SchwiftyException" /\ Raised(ret) /\ ~self.live)

C9_Witness ==
    /\ call.op = "from_components"
    /\ call.country_code = AO
    /\ Len(Arg(BANK_CODE)) > 0
    /\ ret.kind = "SchwiftyException"

(***************************************************************************)
(* C10: with a country code that is not in the IBAN registry, every entry  *)
(* point of BBAN raises InvalidCountryCode, and the registry tables and    *)
(* the algorithm table are what they were.                                 *)
(***************************************************************************)
EntryPoints ==
    {"from_components", "bank_code", "branch_code", "account_code", "account_id",
     "account_type", "account_holder_id", "national_checksum_digits", "spec",
     "bic", "bank", "validate_national_checksum"}

C10_UnknownCountry ==
    (call.op \in EntryPoints /\ call.country_code \notin DOMAIN iban_registry) =>
        /\ Raised(ret) /\ ret.kind = "InvalidCountryCode"
        /\ iban_registry = IbanRegistry
        /\ bank_registry = BankRegistry
        /\ algorithms = Algorithms

C10_Witness ==
    /\ call.op = "bic"
    /\ call.country_code = <<"X", "X">>
    /\ ret.kind = "InvalidCountryCode"

(***************************************************************************)
(* What validate_national_checksum is to decide on, read off the object    *)
(* at hand and the tables.                                                 *)
(***************************************************************************)
Validating == call.op = "validate_national_checksum"

KnownObject == self.live /\ self.country_code \in DOMAIN iban_registry

\* the records of the bank the BBAN names: by bank code, by branch code when
\* the bank code is empty
BankKey ==
    <<self.country_code,
      IF Read(BANK_CODE) # <<>> THEN Read(BANK_CODE) ELSE Read(BRANCH_CODE)>>

BankRecords == IF BankKey \in DOMAIN bank_registry THEN bank_registry[BankKey] ELSE <<>>

\* the name of the algorithm: the override of the first record, else "default"
AlgorithmName ==
    IF BankRecords # <<>> /\ "checksum_algo" \in DOMAIN BankRecords[1]
    THEN BankRecords[1].checksum_algo ELSE "default"

ResolvedKey == self.country_code \o <<":", AlgorithmName>>

AlgorithmRegistered == ResolvedKey \in DOMAIN algorithms

\* what the registered algorithm's validate gives for the accepted components
\* in declared order and the national checksum digits
Verdict ==
    LET algo == algorithms[ResolvedKey]
    IN  validate(algo, [i \in 1..Len(accepts(algo)) |-> Read(accepts(algo)[i])],
                 Read(NATIONAL_CHECKSUM_DIGITS))

Rejected == AlgorithmRegistered /\ ~Raised(Verdict) /\ ~Verdict.bool

(***************************************************************************)
(* C11, as stated: validate_national_checksum raises InvalidBBANChecksum   *)
(* exactly when an algorithm is registered under "<country>:<name>" and    *)
(* its validate returns false; with no algorithm under that key the call   *)
(* does not raise.                                                         *)
(***************************************************************************)
C11_Original ==
    (Validating /\ self.live) =>
        /\ (ret.kind = "InvalidBBANChecksum") <=> (KnownObject /\ Rejected)
        /\ ~(KnownObject /\ AlgorithmRegistered) => ~Raised(ret)

(***************************************************************************)
(* C11, amended: for a BBAN whose country code is in the IBAN registry,    *)
(* validate_national_checksum raises InvalidBBANChecksum exactly when an   *)
(* algorithm is registered under "<country>:<name>" and its validate       *)
(* returns false, and does not raise when none is registered under that    *)
(* key; for a country code that is not in the registry it raises           *)
(* InvalidCountryCode.                                                     *)
(***************************************************************************)
C11_Raises ==
    (Validating /\ self.live) =>
        IF KnownObject
        THEN /\ (ret.kind = "InvalidBBANChecksum") <=> Rejected
             /\ ~AlgorithmRegistered => ~Raised(ret)
        ELSE ret.kind = "InvalidCountryCode"

\* PT, a bank without an override, checksum digits that do not match
C11_Witness ==
    /\ Validating /\ KnownObject
    /\ self.country_code = PT
    /\ AlgorithmName = "default"
    /\ Rejected
    /\ ret.kind = "InvalidBBANChecksum"

(***************************************************************************)
(* C12: validate_national_checksum returns True when a registered          *)
(* algorithm accepted the national checksum digits, and, without raising,  *)
(* a value other than True when no algorithm is registered; so True is     *)
(* returned only after a registered algorithm verified the checksum.       *)
(***************************************************************************)
Accepted == AlgorithmRegistered /\ ~Raised(Verdict) /\ Verdict.bool

ReturnedTrue == ret.type = "bool" /\ ret.bool

C12_Original ==
    (Validating /\ KnownObject) =>
        /\ Accepted => ReturnedTrue
        /\ ~AlgorithmRegistered => (~Raised(ret) /\ ~ReturnedTrue)
        /\ ReturnedTrue => Accepted

(***************************************************************************)
(* What the claims on the checksum algorithms speak of.                    *)
(***************************************************************************)
Computing(algo) == call.op = "compute" /\ call.algo = algo

Checking(algo) == call.op = "validate" /\ call.algo = algo

\* the components are strings over 0-9A-Z
OverAlphabet ==
    \A i \in 1..Len(call.components) :
        Range(call.components[i]) \subseteq Range(alphabet)

Concatenated == Join(call.components)

\* 98 - ((N * 100) mod 97), N the number the string spells with a digit for
\* itself and a letter for 10 .. 35
CheckNumber(s) == 98 - Remainder97(s \o <<"0", "0">>, 0)

TwoDigits(v) == <<digits[(v \div 10) + 1], digits[(v % 10) + 1]>>

(***************************************************************************)
(* C13, as stated: for any list of components over 0-9A-Z the ISO 7064     *)
(* mod-97-10 compute returns 98 - ((N * 100) mod 97) in exactly two        *)
(* decimal digits, between "02" and "98".                                  *)
(***************************************************************************)
C13_Original ==
    (Computing(ISO7064_mod97_10) /\ OverAlphabet) =>
        /\ ~Raised(ret)
        /\ ret.value = TwoDigits(CheckNumber(Concatenated))
        /\ Len(ret.value) = 2
        /\ CheckNumber(Concatenated) \in 2..98

(***************************************************************************)
(* C13, amended: for any list of components over 0-9A-Z whose              *)
(* concatenation is not empty, the ISO 7064 mod-97-10 compute returns      *)
(* 98 - ((N * 100) mod 97) in exactly two decimal digits, between "02"     *)
(* and "98"; when the concatenation is empty it raises ValueError.         *)
(***************************************************************************)
C13_Compute ==
    (Computing(ISO7064_mod97_10) /\ OverAlphabet) =>
        IF Concatenated = <<>> THEN Raised(ret) /\ ret.kind = "ValueError"
        ELSE /\ ~Raised(ret)
             /\ ret.value = TwoDigits(CheckNumber(Concatenated))
             /\ Len(ret.value) = 2
             /\ ret.value[1] \in Range(digits) /\ ret.value[2] \in Range(digits)
             /\ CheckNumber(Concatenated) \in 2..98

\* three components, a letter among them, and a one-digit check number
C13_Witness ==
    /\ Computing(ISO7064_mod97_10) /\ OverAlphabet
    /\ Len(call.components) = 3
    /\ "Z" \in Range(Concatenated)
    /\ call.components[1] # <<>> /\ call.components[3] # <<>>
    /\ ret.value[1] = "0"

(***************************************************************************)
(* C14: for the algorithm that does not override validate (ISO 7064        *)
(* mod-97-10), validate(components, expected) is true exactly when         *)
(* compute(components) equals expected: the computed checksum is accepted  *)
(* and every other expected string is rejected; where compute raises,      *)
(* validate raises the same.                                               *)
(***************************************************************************)
Computed == compute(call.algo, call.components)

C14_Validate ==
    Checking(ISO7064_mod97_10) =>
        \E computed \in {Computed} :
            IF Raised(computed) THEN ret = computed
            ELSE /\ ret.type = "bool"
                 /\ ret.bool <=> (call.expected = computed.value)
                 /\ call.expected = TwoDigits(CheckNumber(Concatenated)) => ret.bool

\* the computed checksum of components with a letter, handed back
C14_Witness ==
    /\ Checking(ISO7064_mod97_10)
    /\ "Z" \in Range(Concatenated)
    /\ call.expected = TwoDigits(CheckNumber(Concatenated))
    /\ call.expected # <<"9", "8">>
    /\ ret.type = "bool" /\ ret.bool

(***************************************************************************)
(* C15: the NL algorithm accepts the account code alone; its compute       *)
(* returns the empty string; its validate returns true exactly when the    *)
(* sum over the positions i (from 0) of digit_i * (10 - i) of the account  *)
(* code is divisible by 11, whatever the expected checksum.                *)
(***************************************************************************)
\* the sum over the first n characters
RECURSIVE PositionSum(_, _)
PositionSum(s, n) ==
    IF n = 0 THEN 0
    ELSE PositionSum(s, n - 1) + Index(digits, s[n]) * (10 - (n - 1))

OneAccountCode ==
    /\ Len(call.components) = 1
    /\ Range(call.components[1]) \subseteq Range(digits)

C15_Netherlands ==
    /\ accepts(NLDefaultAlgorithm) = <<ACCOUNT_CODE>>
    /\ Computing(NLDefaultAlgorithm) => (~Raised(ret) /\ ret.value = <<>>)
    /\ Checking(NLDefaultAlgorithm) =>
           /\ OneAccountCode => ret.type = "bool"
           /\ (ret.type = "bool" /\ ret.bool) <=>
                  /\ OneAccountCode
                  /\ PositionSum(call.components[1], Len(call.components[1])) % 11 = 0

\* 9 * 10 + 1 * 9 = 99 is divisible by 11; the expected checksum is not empty
C15_Witness ==
    /\ Checking(NLDefaultAlgorithm)
    /\ call.components = <<(<<"9", "1">>)>>
    /\ call.expected = <<"9", "8">>
    /\ ret.type = "bool" /\ ret.bool

(***************************************************************************)
(* C16: a checksum algorithm given a value of another length than it       *)
(* expects raises: the NL validate for an account code that is not         *)
(* exactly 10 digits, the weighted helper for a value whose length is not  *)
(* that of the weight list.                                                *)
(***************************************************************************)
C16_Original ==
    /\ (/\ Checking(NLDefaultAlgorithm)
        /\ Len(call.components) = 1
        /\ Len(call.components[1]) # 10) => Raised(ret)
    /\ (call.op = "weighted" /\ Len(call.value) # Len(call.weights)) => Raised(ret)

(***************************************************************************)
(* C17: each component accessor returns the substring of the BBAN at the   *)
(* half-open range [start, end) the country spec gives the component, the  *)
(* empty string when the spec gives it none; and no accessor changes the   *)
(* BBAN value or its country code.                                         *)
(***************************************************************************)
\* the accessors are named as the components are
Accessors == Component

HasRange(country_code, component) ==
    /\ "positions" \in DOMAIN iban_registry[country_code]
    /\ component \in DOMAIN iban_registry[country_code].positions

\* the characters of value at the 0-based positions start .. end - 1
Substring(value, range) == [i \in 1..(range[2] - range[1]) |-> value[range[1] + i]]

C17_Step ==
    call'.op \in Accessors =>
        /\ self' = self
        /\ self.country_code \in DOMAIN iban_registry =>
               /\ ~Raised(ret')
               /\ ret'.value =
                      IF HasRange(self.country_code, call'.op)
                      THEN Substring(self.value,
                                     iban_registry[self.country_code].positions[call'.op])
                      ELSE <<>>

C17_Accessors == [][C17_Step]_vars

\* IS: the account type is the second character alone
C17_Witness ==
    /\ call.op = ACCOUNT_TYPE
    /\ self.country_code = IS
    /\ self.value[2] # self.value[1] /\ self.value[2] # self.value[3]
    /\ ret.value = <<self.value[2]>>

(***************************************************************************)
(* C18, as stated: BBAN.bank looks up (country code, bank code), with the  *)
(* branch code for key only when the bank code is empty; it returns the    *)
(* first record of the list found, and null, never raising, when the key   *)
(* is absent or its list is empty.                                         *)
(***************************************************************************)
BankFound ==
    IF BankRecords = <<>> THEN ret.type = "None"
    ELSE ret.type = "dict" /\ ret.record = BankRecords[1]

C18_Original == (call.op = "bank" /\ self.live) => (~Raised(ret) /\ BankFound)

(***************************************************************************)
(* C18, amended: the same for a BBAN whose country code is in the IBAN     *)
(* registry; for a country code that is not, BBAN.bank raises              *)
(* InvalidCountryCode.                                                     *)
(***************************************************************************)
C18_Bank ==
    (call.op = "bank" /\ self.live) =>
        IF KnownObject THEN ~Raised(ret) /\ BankFound
        ELSE ret.kind = "InvalidCountryCode"

\* TN has no bank code: the record is found by the branch code
C18_Witness ==
    /\ call.op = "bank" /\ KnownObject
    /\ Read(BANK_CODE) = <<>>
    /\ Read(BRANCH_CODE) # <<>>
    /\ ret.type = "dict"
    /\ ret.record.name = "Bank H"

(***************************************************************************)
(* C19: BBAN.bic looks the BIC up by the concatenation, in list order, of  *)
(* the components the spec names in bic_lookup_components (the bank code   *)
(* alone when it names none), and for a country code in the registry       *)
(* returns null, without raising, when the lookup for that key fails.      *)
(***************************************************************************)
LookupComponents ==
    IF "bic_lookup_components" \in DOMAIN iban_registry[self.country_code]
    THEN iban_registry[self.country_code].bic_lookup_components
    ELSE <<BANK_CODE>>

LookupKey ==
    <<self.country_code,
      Join([i \in 1..Len(LookupComponents) |-> Read(LookupComponents[i])])>>

LookupRecords ==
    IF LookupKey \in DOMAIN bank_registry THEN bank_registry[LookupKey] ELSE <<>>

\* the BIC of a primary record, of the first record when there is none
LookupBics ==
    LET primary == {i \in 1..Len(LookupRecords) :
                       /\ "primary" \in DOMAIN LookupRecords[i]
                       /\ LookupRecords[i].primary}
    IN  IF primary = {} THEN {LookupRecords[1].bic}
        ELSE {LookupRecords[i].bic : i \in primary}

C19_Bic ==
    (call.op = "bic" /\ KnownObject) =>
        /\ ~Raised(ret)
        /\ IF LookupRecords = <<>> THEN ret.type = "None"
           ELSE ret.type = "BIC" /\ ret.value \in LookupBics

\* IT looks up by bank code and branch code, in this order
C19_Witness ==
    /\ call.op = "bic" /\ KnownObject
    /\ LookupComponents = <<BANK_CODE, BRANCH_CODE>>
    /\ Read(BANK_CODE) = <<"1">>
    /\ Read(BRANCH_CODE) = <<"0", "1">>
    /\ ret.type = "BIC"
    /\ ret.value = <<"G", "G">>

(***************************************************************************)
(* C20: BBAN.from_components normalizes the country code: a country code   *)
(* gives the same outcome as its stripped, uppercased form, and a BBAN     *)
(* that is returned is tagged with that form.                              *)
(***************************************************************************)
Normalized == clean(call.country_code)

C20_Original ==
    call.op = "from_components" =>
        \E normal \in {from_components(iban_registry, algorithms,
                                       Normalized, call.values)} :
            /\ ret = normal
            /\ ~Raised(ret) => ret.country_code = Normalized

(***************************************************************************)
(* C21: in a BBAN that from_components returns, every position outside     *)
(* the ranges of bank code, branch code, account code and national         *)
(* checksum digits is "0", each of these components with a non-empty range *)
(* ends at the end of its range, and one with an empty range writes        *)
(* nothing: the string keeps the declared length.                          *)
(***************************************************************************)
WrittenComponents == ComponentArgs \cup {NATIONAL_CHECKSUM_DIGITS}

\* the value the call writes for a component
Written(component) ==
    IF component \in ComponentArgs
    THEN SignPadded(Effective(component), Width(component))
    ELSE compute_national_checksum(algorithms, call.country_code,
             [c \in ComponentArgs |-> SignPadded(Effective(c), Width(c))]).value

\* a 0-based position that lies in the range of a written component
InRanges(p) ==
    \E c \in WrittenComponents : Declared(c)[1] <= p /\ p < Declared(c)[2]

C21_Frame ==
    (Generating /\ Returned) =>
        /\ Len(ret.value) = CallSpec.bban_length
        /\ \A p \in 0..(Len(ret.value) - 1) :
               ~InRanges(p) => ret.value[p + 1] = "0"
        /\ \A c \in WrittenComponents :
               Declared(c) # EMPTY_RANGE =>
                   \E v \in {Written(c)} :
                       /\ Len(v) <= Declared(c)[2]
                       /\ SubSeq(ret.value, Declared(c)[2] - Len(v) + 1,
                                 Declared(c)[2]) = v

\* IS: the account type and the account holder id lie outside the ranges
C21_Witness ==
    /\ Generating /\ Returned
    /\ call.country_code = IS
    /\ Effective(BANK_CODE) = <<"1">>
    /\ Effective(ACCOUNT_CODE) = <<"1">>
    /\ ret.value = <<"1", "0", "1", "0">>

(***************************************************************************)
(* C22: a branch code supplied to from_components is never silently        *)
(* discarded: the call raises, or the branch_code accessor of the result   *)
(* is the supplied branch code, normalized and zero-padded; and a supplied *)
(* branch code longer than its width raises InvalidBranchCode.             *)
(***************************************************************************)
\* a branch code that is not empty is passed
BranchSupplied == Generating /\ Arg(BRANCH_CODE) # <<>>

C22_Original ==
    BranchSupplied =>
        /\ \/ Raised(ret)
           \/ Read(BRANCH_CODE) = SignPadded(Arg(BRANCH_CODE), Width(BRANCH_CODE))
        /\ Len(Arg(BRANCH_CODE)) > Width(BRANCH_CODE)
               => ret.kind = "InvalidBranchCode"

(***************************************************************************)
(* C23: for a country code in the registry and a BBAN string of the        *)
(* declared length, whatever its characters, validate_national_checksum    *)
(* returns a boolean or raises InvalidBBANChecksum, and nothing else.      *)
(***************************************************************************)
DeclaredLength ==
    Len(self.value) = iban_registry[self.country_code].bban_length

C23_Original ==
    (Validating /\ KnownObject /\ DeclaredLength) =>
        \/ ret.type = "bool"
        \/ ret.kind = "InvalidBBANChecksum"

====
